---- MODULE Spec2Model ----
(***************************************************************************)
(* Model of slurm-ad-sync.py: one run of main() connects to the directory, *)
(* reads the slurm_ groups and, group by group and member by member,       *)
(* queries sacctmgr and issues (or, with --dry-run, only reports) the      *)
(* add account / add user / modify user commands.                          *)
(*                                                                         *)
(* Names (accounts, logins) are sequences of one-character strings, so     *)
(* that the parsing of sacctmgr's output (split, strip, substring test) is *)
(* modelled by what it does.                                               *)
(***************************************************************************)
EXTENDS Integers, Sequences, FiniteSets, TLC

(* ------------------------------ bounds --------------------------------- *)

\* Largest number of member references over all groups of the directory.
MaxMembers == 2

\* Largest number of external calls (directory or sacctmgr) that fail in a
\* behaviour.
MaxFail == 1

\* Largest number of member references in the directory that two concurrent
\* instances read.
MaxRaceMembers == 1

(* ------------------------------ strings -------------------------------- *)

SP == " "
NL == "\n"

\* The value Python's None and the empty string share under `if username:`.
None == <<>>

RECURSIVE Repeat(_, _)
Repeat(c, n) == IF n <= 0 THEN <<>> ELSE <<c>> \o Repeat(c, n - 1)

\* Python's `s in t` for strings.
Contains(t, s) ==
    \E i \in 0..(Len(t) - Len(s)) : SubSeq(t, i + 1, i + Len(s)) = s

\* Python's str.strip() (whitespace at both ends removed).
RECURSIVE LStrip(_)
LStrip(s) == IF s # <<>> /\ Head(s) \in {SP, NL} THEN LStrip(Tail(s)) ELSE s

RECURSIVE RStrip(_)
RStrip(s) ==
    IF s # <<>> /\ s[Len(s)] \in {SP, NL}
    THEN RStrip(SubSeq(s, 1, Len(s) - 1))
    ELSE s

Strip(s) == LStrip(RStrip(s))

\* Python's str.split(sep)[0]: the text before the first separator.
FirstField(s, sep) ==
    LET at == {i \in 1..Len(s) : s[i] = sep}
    IN  IF at = {} THEN s
        ELSE SubSeq(s, 1, (CHOOSE i \in at : \A j \in at : i <= j) - 1)

\* Python's str.splitlines() on a text whose lines each end with a newline.
RECURSIVE SplitLines(_)
SplitLines(s) ==
    IF s = <<>> THEN <<>>
    ELSE LET l == FirstField(s, NL)
         IN  <<l>> \o SplitLines(SubSeq(s, Len(l) + 2, Len(s)))

RECURSIVE Concat(_)
Concat(ss) == IF ss = <<>> THEN <<>> ELSE Head(ss) \o Concat(Tail(ss))

(* ------------------------------- names --------------------------------- *)

Prefix == <<"s", "l", "u", "r", "m", "_">>
GroupA == Prefix \o <<"a">>
GroupB == Prefix \o <<"b">>
\* An account of the scheduler that no directory group names.
Other  == <<"o", "t", "h">>
Cluster == <<"c">>

\* Logins: an ordinary one, one that occurs inside the word "User", one
\* longer than the column sacctmgr prints it in, and a scheduler user that no
\* directory group lists.
Al   == <<"a", "l">>
Ser  == <<"s", "e", "r">>
Long == <<"a", "l", "e", "x", "a", "n", "d", "r", "i", "n", "a">>
Zed  == <<"z", "e", "d">>

GroupNames == {GroupA, GroupB}

(* ------------------------- sacctmgr's output --------------------------- *)

\* Width of the User column of `sacctmgr list user format=User`.
UserColumn == 10

\* A column of a non-parsable listing: the value right-aligned in `width`
\* characters, cut to `width` with a final "+" when longer, then a space.
PrintField(value, width) ==
    (IF Len(value) > width
     THEN SubSeq(value, 1, width - 1) \o <<"+">>
     ELSE Repeat(SP, width - Len(value)) \o value) \o <<SP>>

RECURSIVE SetToSeq(_)
SetToSeq(S) ==
    IF S = {} THEN <<>>
    ELSE LET x == CHOOSE y \in S : TRUE IN <<x>> \o SetToSeq(S \ {x})

\* stdout of `sacctmgr list account format=Account,Cluster --parsable2`:
\* a header line, then one line per account and cluster.
ListAccountOutput(accts) ==
    LET rows == SetToSeq(accts)
    IN  <<"A", "c", "c", "o", "u", "n", "t", "|",
          "C", "l", "u", "s", "t", "e", "r", NL>>
        \o Concat([i \in 1..Len(rows) |->
                     rows[i] \o <<"|">> \o Cluster \o <<NL>>])

\* stdout of `sacctmgr list user <username> format=User`: the header, a
\* line of dashes, and a line for the user when there is one of that name.
ListUserOutput(username, usrs) ==
    PrintField(<<"U", "s", "e", "r">>, UserColumn) \o <<NL>>
    \o Repeat("-", UserColumn) \o <<SP, NL>>
    \o (IF username \in usrs
        THEN PrintField(username, UserColumn) \o <<NL>>
        ELSE <<>>)

\* stdout of `sacctmgr list user <username> format=DefaultAccount
\* --parsable2`: the header, and the user's default account when the user
\* exists.
ListDefaultAccountOutput(username, usrs, dflt) ==
    <<"D", "e", "f", SP, "A", "c", "c", "t", NL>>
    \o (IF username \in usrs THEN dflt[username] \o <<NL>> ELSE <<>>)

\* What a sacctmgr listing leaves on stdout when it exits with an error,
\* such as the accounting daemon not answering (subprocess.run is called
\* without check=True, so nothing is raised).
FailedOutput == <<>>

(* ---------------------- the three scheduler queries -------------------- *)

\* An account check that compares the whole line with the name.
slurm_group_exists_line(group_name, output) ==
    LET lines == SplitLines(output)
    IN  \E i \in 1..Len(lines) : lines[i] = group_name

\* slurm_group_exists: some line's first "|" field equals group_name.
slurm_group_exists(group_name, output) ==
    LET lines == SplitLines(output)
    IN  \E i \in 1..Len(lines) : FirstField(lines[i], "|") = group_name

\* slurm_user_exists: `username in output`.
slurm_user_exists(username, output) == Contains(output, username)

\* slurm_user_in_group: some line, stripped, equals group_name.
slurm_user_in_group(username, group_name, output) ==
    LET lines == SplitLines(output)
    IN  \E i \in 1..Len(lines) : group_name = Strip(lines[i])

(* ---------------------------- the directory ---------------------------- *)

\* Member references (distinguished names) a group can hold.
Refs == {"dn_al", "dn_ser", "dn_long", "dn_gone", "dn_noattr"}

\* What samdb.search(base=member, scope=0, attrs=["sAMAccountName"]) returns
\* when it returns: the entries found under the reference.
MemberSearch(member) ==
    CASE member = "dn_al"   -> <<[sAMAccountName |-> <<Al>>]>>
      [] member = "dn_ser"  -> <<[sAMAccountName |-> <<Ser>>]>>
      [] member = "dn_long" -> <<[sAMAccountName |-> <<Long>>]>>
      [] member = "dn_gone" -> <<>>
      [] OTHER              -> <<[dn |-> member]>>

\* extract_username: the first sAMAccountName value, or None.
extract_username(ad_entry) ==
    IF "sAMAccountName" \in DOMAIN ad_entry
    THEN ad_entry["sAMAccountName"][1]
    ELSE None

\* Line 125: extract_username(user_entry[0]) if user_entry else None.
ResolveUsername(user_entry) ==
    IF user_entry # <<>> THEN extract_username(user_entry[1]) ELSE None

\* The login a reference resolves to (None when it resolves to none).
LoginOf(member) == ResolveUsername(MemberSearch(member))

\* Member lists of at most n references, none twice (the member attribute
\* is a set of distinguished names).
RECURSIVE MemberLists(_)
MemberLists(n) ==
    IF n = 0 THEN {<<>>}
    ELSE MemberLists(n - 1) \cup
         {Append(ms, m) : <<ms, m>> \in
            {x \in MemberLists(n - 1) \X Refs :
                /\ Len(x[1]) = n - 1
                /\ \A i \in 1..Len(x[1]) : x[1][i] # x[2]}}

\* Search results of one group per name of the sequence `names`, in that
\* order, holding at most n members in all.
RECURSIVE Results(_, _)
Results(names, n) ==
    IF names = <<>> THEN {<<>>}
    ELSE UNION {
           {<<[cn |-> <<Head(names)>>, member |-> ms]>> \o rest :
                rest \in Results(Tail(names), n - Len(ms))} :
           ms \in MemberLists(n)}

\* The directory snapshots: what the search (cn=slurm_*) can return. The
\* groups have distinct names; the model is symmetric in the names, so the
\* first group returned is called GroupA and the second GroupB.
Directories ==
    UNION {Results(SubSeq(<<GroupA, GroupB>>, 1, k), MaxMembers) : k \in 0..2}

\* The group names and the logins a directory snapshot holds.
NamesOf(dir) == {dir[g].cn[1] : g \in 1..Len(dir)}
LoginsOf(dir) ==
    {LoginOf(dir[g].member[m]) :
        <<g, m>> \in {x \in (1..Len(dir)) \X (1..MaxMembers) :
                        x[2] <= Len(dir[x[1]].member)}} \ {None}

\* Scheduler states a run can start from: the account Other and the user
\* Zed, which no directory group names, plus any of the accounts in
\* `names` and any of the users in `logins`; a user's default account
\* is an existing account.
SchedulerStates(names, logins) ==
    UNION {
      {[accounts |-> {Other} \cup A, users |-> {Zed} \cup U, defacct |-> d] :
          d \in {f \in [{Zed} \cup U -> {Other} \cup A] : f[Zed] = Other}} :
      <<A, U>> \in (SUBSET names) \X (SUBSET logins)}

(* ------------------------------- state --------------------------------- *)

\* The runs of the tool a behaviour holds, one after the other.
Runs == {1, 2}

VARIABLES
    accounts,   \* the scheduler's accounts
    users,      \* the scheduler's users
    defacct,    \* each scheduler user's default account
    adGroups,   \* the directory: what the group search returns when it works
    fails,      \* external calls that failed so far
    pc,         \* per run: where main() stands
    dry_run,    \* per run: args.dry_run
    groups,     \* per run: what get_slurm_groups returned
    gi,         \* per run: index of the group main's loop is at
    mi,         \* per run: index of the member add_to_slurmdbd's loop is at
    username,   \* per run: the login of the current member
    emitted,    \* per run: the commands issued or, with dry_run, reported
    printed,    \* per run: the error and exit messages printed
    exitCode,   \* per run: the process's exit status (-1 while it runs)
    visited,    \* per run: the loop iterations begun, <<group, member>>
    blind,      \* per run: a scheduler query of the run failed
    start       \* per run: the scheduler's state when the run began

sched == <<accounts, users, defacct>>
vars  == <<accounts, users, defacct, adGroups, fails, pc, dry_run, groups,
           gi, mi, username, emitted, printed, exitCode, visited, blind,
           start>>

Scheduler == [accounts |-> accounts, users |-> users, defacct |-> defacct]

Init ==
    /\ adGroups \in Directories
    /\ \E s \in SchedulerStates(GroupNames, LoginsOf(adGroups)) :
          /\ accounts = s.accounts
          /\ users = s.users
          /\ defacct = s.defacct
    /\ fails = 0
    /\ pc = [r \in Runs |-> "start"]
    /\ dry_run = [r \in Runs |-> FALSE]
    /\ groups = [r \in Runs |-> <<>>]
    /\ gi = [r \in Runs |-> 0]
    /\ mi = [r \in Runs |-> 0]
    /\ username = [r \in Runs |-> None]
    /\ emitted = [r \in Runs |-> <<>>]
    /\ printed = [r \in Runs |-> {}]
    /\ exitCode = [r \in Runs |-> -1]
    /\ visited = [r \in Runs |-> {}]
    /\ blind = [r \in Runs |-> FALSE]
    /\ start = [r \in Runs |-> <<>>]

(* ----------------------------- control flow ---------------------------- *)

\* main's loop at group g of the list gs: the group's account check, or the
\* end of main when the list is exhausted.
AtGroup(g, gs) ==
    IF g <= Len(gs) THEN [pc |-> "group", gi |-> g, mi |-> 0]
    ELSE [pc |-> "done", gi |-> g, mi |-> 0]

\* add_to_slurmdbd's loop at member m of group g: the member's lookup, or the
\* next group when the member list is exhausted.
AtMember(g, m, gs) ==
    IF m <= Len(gs[g].member) THEN [pc |-> "member", gi |-> g, mi |-> m]
    ELSE AtGroup(g + 1, gs)

\* A handler around main's loop instead: the error ends the loop.
AfterCommandErrorEndsLoop(g, gs) == AtGroup(Len(gs) + 1, gs)

\* Where a CalledProcessError raised in group g leads: the handler of
\* add_to_slurmdbd prints the error and returns, main goes to the next group.
AfterCommandError(g, gs) == AtGroup(g + 1, gs)

\* A dry-run flag that is ignored.
IssuesAlways(dry) == TRUE

\* Whether the branch of a missing entity issues the command (or reports it).
Issues(dry) == ~dry

Goto(r, loc) ==
    /\ pc' = [pc EXCEPT ![r] = loc.pc]
    /\ gi' = [gi EXCEPT ![r] = loc.gi]
    /\ mi' = [mi EXCEPT ![r] = loc.mi]
    /\ exitCode' = [exitCode EXCEPT ![r] = IF loc.pc = "done" THEN 0 ELSE @]

\* An external call either works or, while the bound allows, fails.
Outcome(ok) ==
    /\ ok \in BOOLEAN
    /\ ~ok => fails < MaxFail
    /\ fails' = IF ok THEN fails ELSE fails + 1

Action(kind, user, account, result) ==
    [kind |-> kind, user |-> user, account |-> account, result |-> result]

group_name(r) == groups[r][gi[r]].cn[1]
\* The member list walked from its end.
membersReversed(r) ==
    LET ms == groups[r][gi[r]].member
    IN  [i \in 1..Len(ms) |-> ms[Len(ms) + 1 - i]]

members(r) == groups[r][gi[r]].member

(* ------------------------------- main ---------------------------------- *)

\* Lines 170-174: the arguments are parsed; --dry-run is given or not.
ParseArgs(r) ==
    /\ pc[r] = "start"
    /\ \E d \in BOOLEAN : dry_run' = [dry_run EXCEPT ![r] = d]
    /\ pc' = [pc EXCEPT ![r] = "connect"]
    /\ start' = [start EXCEPT ![r] = Scheduler]
    /\ UNCHANGED <<sched, adGroups, fails, groups, gi, mi, username, emitted,
                   printed, exitCode, visited, blind>>

\* Lines 177-180: connect_to_ad returns the connection, or prints the error
\* and returns None, and then main prints that it failed and returns.
ConnectToAd(r) ==
    /\ pc[r] = "connect"
    /\ \E ok \in BOOLEAN :
          /\ Outcome(ok)
          /\ IF ok
             THEN /\ pc' = [pc EXCEPT ![r] = "search"]
                  /\ UNCHANGED <<printed, exitCode>>
             ELSE /\ printed' = [printed EXCEPT ![r] =
                        @ \cup {"Error connecting to AD",
                                "Failed to connect to AD. Exiting."}]
                  /\ pc' = [pc EXCEPT ![r] = "done"]
                  /\ exitCode' = [exitCode EXCEPT ![r] = 0]
    /\ UNCHANGED <<sched, adGroups, dry_run, groups, gi, mi, username,
                   emitted, visited, blind, start>>

\* What get_slurm_groups returns: the search's result, or [] when it raised.
get_slurm_groups(ok) == IF ok THEN adGroups ELSE <<>>

\* Lines 183-189: the groups are fetched; with none, main prints that none
\* was found and returns; otherwise its loop starts at the first group.
GetSlurmGroups(r) ==
    /\ pc[r] = "search"
    /\ \E ok \in BOOLEAN :
          /\ Outcome(ok)
          /\ groups' = [groups EXCEPT ![r] = get_slurm_groups(ok)]
          /\ printed' = [printed EXCEPT ![r] =
                @ \cup (IF ok THEN {} ELSE {"Error querying AD groups"})
                  \cup (IF get_slurm_groups(ok) = <<>>
                        THEN {"No slurm groups found in AD."} ELSE {})]
          /\ Goto(r, AtGroup(1, get_slurm_groups(ok)))
    /\ UNCHANGED <<sched, adGroups, dry_run, username, emitted, visited,
                   blind, start>>

(* --------------------------- add_to_slurmdbd --------------------------- *)

\* Lines 112-119: the account listing is read; a group not found in it is
\* reported (dry run) or is to be added; then the member loop starts.
CheckGroup(r) ==
    /\ pc[r] = "group"
    /\ \E ok \in BOOLEAN :
          /\ Outcome(ok)
          /\ blind' = [blind EXCEPT ![r] = @ \/ ~ok]
          /\ LET output == IF ok THEN ListAccountOutput(accounts)
                           ELSE FailedOutput
             IN  IF slurm_group_exists(group_name(r), output)
                 THEN /\ Goto(r, AtMember(gi[r], 1, groups[r]))
                      /\ UNCHANGED emitted
                 ELSE IF Issues(dry_run[r])
                 THEN /\ pc' = [pc EXCEPT ![r] = "add_account"]
                      /\ UNCHANGED <<gi, mi, exitCode, emitted>>
                 ELSE /\ emitted' = [emitted EXCEPT ![r] = Append(@,
                            Action("add_account", None, group_name(r), "dry"))]
                      /\ Goto(r, AtMember(gi[r], 1, groups[r]))
    /\ visited' = [visited EXCEPT ![r] = @ \cup {<<gi[r], 0>>}]
    /\ UNCHANGED <<sched, adGroups, dry_run, groups, username, printed, start>>

\* Line 116: sacctmgr -i add account <group_name>.
AddAccount(r) ==
    /\ pc[r] = "add_account"
    /\ \E ok \in BOOLEAN :
          /\ Outcome(ok)
          /\ emitted' = [emitted EXCEPT ![r] = Append(@,
                Action("add_account", None, group_name(r),
                       IF ok THEN "ok" ELSE "failed"))]
          /\ IF ok
             THEN /\ accounts' = accounts \cup {group_name(r)}
                  /\ Goto(r, AtMember(gi[r], 1, groups[r]))
                  /\ UNCHANGED printed
             ELSE /\ UNCHANGED accounts
                  /\ printed' = [printed EXCEPT ![r] =
                        @ \cup {"Error updating slurmdbd"}]
                  /\ Goto(r, AfterCommandError(gi[r], groups[r]))
    /\ UNCHANGED <<users, defacct, adGroups, dry_run, groups, username,
                   visited, blind, start>>

\* Lines 124-127: the member is looked up. A member without a login is
\* skipped; an exception of the lookup is caught nowhere and ends the
\* process with a traceback.
LookupMember(r) ==
    /\ pc[r] = "member"
    /\ \E ok \in BOOLEAN :
          /\ Outcome(ok)
          /\ IF ~ok
             THEN /\ pc' = [pc EXCEPT ![r] = "done"]
                  /\ exitCode' = [exitCode EXCEPT ![r] = 1]
                  /\ printed' = [printed EXCEPT ![r] = @ \cup {"Traceback"}]
                  /\ UNCHANGED <<gi, mi, username>>
             ELSE LET name == ResolveUsername(MemberSearch(members(r)[mi[r]]))
                  IN  /\ username' = [username EXCEPT ![r] = name]
                      /\ UNCHANGED printed
                      /\ IF name # None
                         THEN /\ pc' = [pc EXCEPT ![r] = "user_exists"]
                              /\ UNCHANGED <<gi, mi, exitCode>>
                         ELSE Goto(r, AtMember(gi[r], mi[r] + 1, groups[r]))
    /\ visited' = [visited EXCEPT ![r] = @ \cup {<<gi[r], mi[r]>>}]
    /\ UNCHANGED <<sched, adGroups, dry_run, groups, emitted, blind, start>>

\* Lines 132-139: the user listing is read; a user not found in it is
\* reported (dry run) or is to be added; a user found has its default
\* account checked next.
CheckUserExists(r) ==
    /\ pc[r] = "user_exists"
    /\ \E ok \in BOOLEAN :
          /\ Outcome(ok)
          /\ blind' = [blind EXCEPT ![r] = @ \/ ~ok]
          /\ LET output == IF ok THEN ListUserOutput(username[r], users)
                           ELSE FailedOutput
             IN  IF slurm_user_exists(username[r], output)
                 THEN /\ pc' = [pc EXCEPT ![r] = "user_in_group"]
                      /\ UNCHANGED <<gi, mi, exitCode, emitted>>
                 ELSE IF Issues(dry_run[r])
                 THEN /\ pc' = [pc EXCEPT ![r] = "add_user"]
                      /\ UNCHANGED <<gi, mi, exitCode, emitted>>
                 ELSE /\ emitted' = [emitted EXCEPT ![r] = Append(@,
                            Action("add_user", username[r], group_name(r), "dry"))]
                      /\ Goto(r, AtMember(gi[r], mi[r] + 1, groups[r]))
    /\ UNCHANGED <<sched, adGroups, dry_run, groups, username, printed,
                   visited, start>>

\* What `sacctmgr add user <login> account=<account>` does to the users and
\* their default accounts when it succeeds: a new user gets the account as
\* its default; an existing user keeps its default.
AddedUser(login, account) ==
    [users |-> users \cup {login},
     defacct |-> IF login \in users THEN defacct
                 ELSE [u \in users \cup {login} |->
                          IF u = login THEN account ELSE defacct[u]]]

\* Line 136: sacctmgr -i add user <username> account=<group_name>.
AddUser(r) ==
    /\ pc[r] = "add_user"
    /\ \E ok \in BOOLEAN :
          /\ Outcome(ok)
          /\ emitted' = [emitted EXCEPT ![r] = Append(@,
                Action("add_user", username[r], group_name(r),
                       IF ok THEN "ok" ELSE "failed"))]
          /\ IF ok
             THEN /\ users' = AddedUser(username[r], group_name(r)).users
                  /\ defacct' = AddedUser(username[r], group_name(r)).defacct
                  /\ Goto(r, AtMember(gi[r], mi[r] + 1, groups[r]))
                  /\ UNCHANGED printed
             ELSE /\ UNCHANGED <<users, defacct>>
                  /\ printed' = [printed EXCEPT ![r] =
                        @ \cup {"Error updating slurmdbd"}]
                  /\ Goto(r, AfterCommandError(gi[r], groups[r]))
    /\ UNCHANGED <<accounts, adGroups, dry_run, groups, username, visited,
                   blind, start>>

\* Lines 139-149: the user's default account is read; when it is not the
\* group, the change is reported (dry run) or is to be made.
CheckUserInGroup(r) ==
    /\ pc[r] = "user_in_group"
    /\ \E ok \in BOOLEAN :
          /\ Outcome(ok)
          /\ blind' = [blind EXCEPT ![r] = @ \/ ~ok]
          /\ LET output == IF ok
                           THEN ListDefaultAccountOutput(username[r], users, defacct)
                           ELSE FailedOutput
             IN  IF slurm_user_in_group(username[r], group_name(r), output)
                 THEN /\ Goto(r, AtMember(gi[r], mi[r] + 1, groups[r]))
                      /\ UNCHANGED emitted
                 ELSE IF Issues(dry_run[r])
                 THEN /\ pc' = [pc EXCEPT ![r] = "modify_user"]
                      /\ UNCHANGED <<gi, mi, exitCode, emitted>>
                 ELSE /\ emitted' = [emitted EXCEPT ![r] = Append(@,
                            Action("modify_user", username[r], group_name(r), "dry"))]
                      /\ Goto(r, AtMember(gi[r], mi[r] + 1, groups[r]))
    /\ UNCHANGED <<sched, adGroups, dry_run, groups, username, printed,
                   visited, start>>

\* A modify command whose where clause selects every user.
ModifiedEveryUser(login, account) == [u \in users |-> account]

\* What `sacctmgr modify user where name=<login> set DefaultAccount=<account>`
\* does to the default accounts when it succeeds: the user named, if there is
\* one, gets the account as its default.
ModifiedUser(login, account) ==
    [u \in users |-> IF u = login THEN account ELSE defacct[u]]

\* Lines 143-146: sacctmgr -i modify user where name=<username> set
\* DefaultAccount=<group_name>.
ModifyUser(r) ==
    /\ pc[r] = "modify_user"
    /\ \E ok \in BOOLEAN :
          /\ Outcome(ok)
          /\ emitted' = [emitted EXCEPT ![r] = Append(@,
                Action("modify_user", username[r], group_name(r),
                       IF ok THEN "ok" ELSE "failed"))]
          /\ IF ok
             THEN /\ defacct' = ModifiedUser(username[r], group_name(r))
                  /\ Goto(r, AtMember(gi[r], mi[r] + 1, groups[r]))
                  /\ UNCHANGED printed
             ELSE /\ UNCHANGED defacct
                  /\ printed' = [printed EXCEPT ![r] =
                        @ \cup {"Error updating slurmdbd"}]
                  /\ Goto(r, AfterCommandError(gi[r], groups[r]))
    /\ UNCHANGED <<accounts, users, adGroups, dry_run, groups, username,
                   visited, blind, start>>

(* --------------------------- specifications ---------------------------- *)

\* Runs are started one after the other (a periodically scheduled job).
Turn(r) == \A q \in Runs : q < r => pc[q] = "done"

Step(r) ==
    \/ ParseArgs(r)
    \/ ConnectToAd(r)
    \/ GetSlurmGroups(r)
    \/ CheckGroup(r)
    \/ AddAccount(r)
    \/ LookupMember(r)
    \/ CheckUserExists(r)
    \/ AddUser(r)
    \/ CheckUserInGroup(r)
    \/ ModifyUser(r)

\* One run of the tool.
Next == \E r \in {1} : Step(r)

Spec == Init /\ [][Next]_vars

\* Two runs, the second started when the first has ended.
NextTwice ==
    \/ \E r \in Runs : Turn(r) /\ ParseArgs(r)
    \/ \E r \in Runs : Turn(r) /\ ConnectToAd(r)
    \/ \E r \in Runs : Turn(r) /\ GetSlurmGroups(r)
    \/ \E r \in Runs : Turn(r) /\ CheckGroup(r)
    \/ \E r \in Runs : Turn(r) /\ AddAccount(r)
    \/ \E r \in Runs : Turn(r) /\ LookupMember(r)
    \/ \E r \in Runs : Turn(r) /\ CheckUserExists(r)
    \/ \E r \in Runs : Turn(r) /\ AddUser(r)
    \/ \E r \in Runs : Turn(r) /\ CheckUserInGroup(r)
    \/ \E r \in Runs : Turn(r) /\ ModifyUser(r)

SpecTwice == Init /\ [][NextTwice]_vars

\* Two runs, one after the other, in which every external call works (the
\* directory answers, every sacctmgr invocation exits with status 0).
NextRepeat ==
    \/ \E r \in Runs : Turn(r) /\ ParseArgs(r) /\ fails' = fails
    \/ \E r \in Runs : Turn(r) /\ ConnectToAd(r) /\ fails' = fails
    \/ \E r \in Runs : Turn(r) /\ GetSlurmGroups(r) /\ fails' = fails
    \/ \E r \in Runs : Turn(r) /\ CheckGroup(r) /\ fails' = fails
    \/ \E r \in Runs : Turn(r) /\ AddAccount(r) /\ fails' = fails
    \/ \E r \in Runs : Turn(r) /\ LookupMember(r) /\ fails' = fails
    \/ \E r \in Runs : Turn(r) /\ CheckUserExists(r) /\ fails' = fails
    \/ \E r \in Runs : Turn(r) /\ AddUser(r) /\ fails' = fails
    \/ \E r \in Runs : Turn(r) /\ CheckUserInGroup(r) /\ fails' = fails
    \/ \E r \in Runs : Turn(r) /\ ModifyUser(r) /\ fails' = fails

SpecRepeat == Init /\ [][NextRepeat]_vars

\* The number of member references a directory snapshot holds.
RECURSIVE MemberCount(_)
MemberCount(dir) ==
    IF dir = <<>> THEN 0 ELSE Len(Head(dir).member) + MemberCount(Tail(dir))

\* Two instances of the tool are started against the same scheduler and a
\* directory of at most MaxRaceMembers member references.
InitConcurrent == Init /\ MemberCount(adGroups) <= MaxRaceMembers

\* Two instances of the tool at the same time: each external call of one (a
\* directory search, a sacctmgr invocation) is a step, and the steps of the
\* two interleave in any order. The directory and the listings answer; a
\* command may fail (as a create of what exists by now may).
NextConcurrent ==
    \/ \E r \in Runs : ParseArgs(r) /\ fails' = fails
    \/ \E r \in Runs : ConnectToAd(r) /\ fails' = fails
    \/ \E r \in Runs : GetSlurmGroups(r) /\ fails' = fails
    \/ \E r \in Runs : CheckGroup(r) /\ fails' = fails
    \/ \E r \in Runs : LookupMember(r) /\ fails' = fails
    \/ \E r \in Runs : CheckUserExists(r) /\ fails' = fails
    \/ \E r \in Runs : CheckUserInGroup(r) /\ fails' = fails
    \/ \E r \in Runs : AddAccount(r)
    \/ \E r \in Runs : AddUser(r)
    \/ \E r \in Runs : ModifyUser(r)

SpecConcurrent == InitConcurrent /\ [][NextConcurrent]_vars

(* ------------------------------ properties ----------------------------- *)

Done(r) == pc[r] = "done"

\* Every external call of run r worked: the directory calls, the scheduler
\* queries and the commands.
Clean(r) ==
    /\ ~blind[r]
    /\ printed[r] \subseteq {"No slurm groups found in AD."}
    /\ \A i \in 1..Len(emitted[r]) : emitted[r][i].result # "failed"

\* The actions of run r as <<kind, login, account>>, in order.
Actions(r) ==
    [i \in 1..Len(emitted[r]) |->
        <<emitted[r][i].kind, emitted[r][i].user, emitted[r][i].account>>]

\* The <<group name, login>> pairs of the directory: each group with each of
\* its members that resolves to a login.
Memberships ==
    {<<adGroups[g].cn[1], LoginOf(adGroups[g].member[m])>> :
        <<g, m>> \in {x \in (1..Len(adGroups)) \X (1..MaxMembers) :
                        /\ x[2] <= Len(adGroups[x[1]].member)
                        /\ LoginOf(adGroups[x[1]].member[x[2]]) # None}}

\* The loop iterations of a run over the groups gs: <<g, 0>> is the account
\* check of group g, <<g, m>> the processing of its member m.
Iterations(gs) ==
    {x \in (1..Len(gs)) \X (0..MaxMembers) : x[2] <= Len(gs[x[1]].member)}

\* C1. Idempotence: after a complete apply-mode run in which every call
\* succeeded, a second run against the resulting scheduler state and the
\* same directory, with every query answered, emits no action.
C1_Idempotence ==
    (Done(1) /\ ~dry_run[1] /\ Clean(1) /\ ~blind[2]) => emitted[2] = <<>>

\* C2. Completeness: after an apply-mode run in which every call succeeded,
\* every group of the directory is an account, every resolvable member is a
\* user, and the member's default account is the group, for each of its
\* groups.
C2_Completeness ==
    (Done(1) /\ ~dry_run[1] /\ Clean(1)) =>
        \A p \in Memberships :
            /\ p[1] \in accounts
            /\ p[2] \in users
            /\ defacct[p[2]] = p[1]

\* C3. Partial-failure resilience: a failed command prevents none of the
\* later actions from being attempted: a run that ends (without a crash) has
\* gone through the account check of every group and through every member
\* of every group, also those that follow a failed command in its group.
C3_FailureSkipsNothing ==
    (Done(1) /\ exitCode[1] = 0) => Iterations(groups[1]) \subseteq visited[1]

\* C4. A dry run makes no mutation: from its start on, no command is issued
\* (every emitted action is a report) and the scheduler's accounts, users and
\* default accounts are those the run started with.
C4_DryRunMutatesNothing ==
    \A r \in Runs :
        (dry_run[r] /\ pc[r] # "start" /\ \A q \in Runs : q > r => pc[q] = "start") =>
            /\ Scheduler = start[r]
            /\ \A i \in 1..Len(emitted[r]) : emitted[r][i].result = "dry"

\* A dry run has ended after reporting two actions or more.
C4_Witness == Done(1) /\ dry_run[1] /\ Len(emitted[1]) >= 2

\* C5. Preview fidelity: a dry run followed by an apply run from the same
\* directory and the same scheduler state (every call of both succeeding)
\* report and issue the same actions in the same order.
C5_PreviewFidelity ==
    (Done(1) /\ dry_run[1] /\ Clean(1) /\ Done(2) /\ ~dry_run[2] /\ Clean(2)) =>
        Actions(1) = Actions(2)

\* C6. A failed scheduler query aborts the run: once a query of the run has
\* failed, the run has stopped (so the failure is never read as "does not
\* exist" and followed by a create).
C6_FailedQueryAborts == blind[1] => Done(1)

\* C7. Isolation: every action names a directory group and (for a user
\* action) a login resolved from a directory member; the scheduler's
\* accounts and users that the directory does not name, and their default
\* accounts, are what they were when the run started; nothing is deleted.
C7_Isolation ==
    LET names  == NamesOf(adGroups)
        logins == LoginsOf(adGroups)
    IN  /\ \A i \in 1..Len(emitted[1]) :
              /\ emitted[1][i].account \in NamesOf(groups[1])
              /\ emitted[1][i].kind # "add_account" =>
                    emitted[1][i].user \in LoginsOf(groups[1])
        /\ pc[1] # "start" =>
              /\ start[1].accounts \subseteq accounts
              /\ start[1].users \subseteq users
              /\ accounts \ names = start[1].accounts \ names
              /\ users \ logins = start[1].users \ logins
              /\ \A u \in users \ logins : defacct[u] = start[1].defacct[u]

\* An apply run has ended having changed a user's default account with a
\* modify command, the scheduler holding an account and a user the
\* directory does not name.
C7_Witness ==
    /\ Done(1) /\ ~dry_run[1]
    /\ \E i \in 1..Len(emitted[1]) :
          /\ emitted[1][i].kind = "modify_user"
          /\ emitted[1][i].result = "ok"
          /\ emitted[1][i].user \in users
          /\ defacct[emitted[1][i].user] # start[1].defacct[emitted[1][i].user]
    /\ Other \in accounts \ NamesOf(adGroups)
    /\ Zed \in users \ LoginsOf(adGroups)

\* What main reports at its end: the exit status and main's own message.
MainOutcome(r) ==
    <<exitCode[r],
      printed[r] \cap {"Failed to connect to AD. Exiting.",
                       "No slurm groups found in AD."}>>

\* C8. A failed group search is signalled distinctly from an empty result:
\* the run whose search failed does not report what a run with no matching
\* group reports (exit status 0 and "No slurm groups found in AD.").
C8_SearchFailureDistinct ==
    (Done(1) /\ "Error querying AD groups" \in printed[1]) =>
        MainOutcome(1) # <<0, {"No slurm groups found in AD."}>>

\* C9. Exit status: a run ends with a non-zero status exactly when it could
\* not proceed: the directory connection, the group search or a member
\* lookup failed, or a scheduler query failed.
C9_ExitStatus ==
    Done(1) =>
        (exitCode[1] # 0 <=>
            \/ "Error connecting to AD" \in printed[1]
            \/ "Error querying AD groups" \in printed[1]
            \/ "Traceback" \in printed[1]
            \/ blind[1])

\* C10. Decision rule: with every query answered, the account is added (or
\* reported) only when no account of the group's name exists; the user is
\* added (or reported) only when no user of that login exists; the
\* default-account branch (modify, or nothing) is taken only when the user
\* exists, and the modify only when its default account is not the group.
C10_DecisionRule ==
    ~blind[1] =>
        /\ pc[1] = "add_account" => group_name(1) \notin accounts
        /\ pc[1] = "add_user" => username[1] \notin users
        /\ pc[1] \in {"user_in_group", "modify_user"} => username[1] \in users
        /\ pc[1] = "modify_user" => defacct[username[1]] # group_name(1)
        /\ dry_run[1] =>
              \A i \in 1..Len(emitted[1]) :
                 LET a == emitted[1][i]
                 IN  /\ a.kind = "add_account" => a.account \notin accounts
                     /\ a.kind = "add_user" => a.user \notin users
                     /\ a.kind = "modify_user" =>
                            a.user \in users /\ defacct[a.user] # a.account

\* The steps of add_to_slurmdbd that query or change the scheduler for the
\* current member.
MemberSteps == {"user_exists", "add_user", "user_in_group", "modify_user"}

\* C11. Unresolvable members are not fatal: a member whose reference
\* resolves to no login (no entry, no sAMAccountName, or a lookup that
\* fails) leads to no scheduler query or command, and a run in which no
\* scheduler command failed still goes through every other member of the
\* group and through every later group.
C11_UnresolvableNonFatal ==
    /\ pc[1] \in MemberSteps =>
          /\ LoginOf(members(1)[mi[1]]) # None
          /\ username[1] = LoginOf(members(1)[mi[1]])
    /\ (Done(1) /\ "Error updating slurmdbd" \notin printed[1]) =>
          Iterations(groups[1]) \subseteq visited[1]

\* The places of a run whose next step is a scheduler query deciding an
\* action: slurm_group_exists, slurm_user_exists, slurm_user_in_group.
QuerySteps == {"group", "user_exists", "user_in_group"}

\* Run r has issued a command (successful or not) to the scheduler.
Issued(r) == \E i \in 1..Len(emitted[r]) : emitted[r][i].result # "dry"

\* C12. Single consistent snapshot: the scheduler state is read before the
\* run's first command and not after it: a run about to issue a query that
\* decides an action has issued no command yet.
C12_SingleSnapshot == pc[1] \in QuerySteps => ~Issued(1)

\* The indices of the groups of gs that hold a member resolving to login.
GroupsOf(gs, login) ==
    {g \in 1..Len(gs) :
        \E m \in 1..Len(gs[g].member) : LoginOf(gs[g].member[m]) = login}

\* The group of gs processed last among those holding login.
LastGroupOf(gs, login) ==
    CHOOSE g \in GroupsOf(gs, login) : \A h \in GroupsOf(gs, login) : h <= g

\* C13. Last write wins: after an apply-mode run in which every call
\* succeeded, a login that is a resolvable member of two groups or more is a
\* user whose default account is the group processed last among them, and
\* the run has reported no error.
C13_LastWriteWins ==
    (Done(1) /\ ~dry_run[1] /\ Clean(1)) =>
        \A login \in LoginsOf(groups[1]) :
            Cardinality(GroupsOf(groups[1], login)) >= 2 =>
                /\ login \in users
                /\ defacct[login] =
                      groups[1][LastGroupOf(groups[1], login)].cn[1]
                /\ printed[1] = {}

\* The loop iteration an action comes from: the index of the group it
\* names in gs and, for a user action, the index of the member of that
\* group resolving to its login (0 for the group's account action).
Position(gs, a) ==
    LET g == CHOOSE h \in 1..Len(gs) : gs[h].cn[1] = a.account
    IN  <<g, IF a.kind = "add_account" THEN 0
             ELSE CHOOSE m \in 1..Len(gs[g].member) :
                     LoginOf(gs[g].member[m]) = a.user>>

\* Iteration p comes before iteration q in the directory's order.
Before(p, q) == p[1] < q[1] \/ (p[1] = q[1] /\ p[2] < q[2])

\* C14. Deterministic order: the actions of a run follow the order of the
\* groups as the directory returned them and, within a group, the account
\* action first and then the order of the member list; and two runs in the
\* same mode that start from the same directory and scheduler state, every
\* call of both succeeding, emit the same sequence of actions.
C14_DeterministicOrder ==
    /\ \A r \in Runs : \A i, j \in 1..Len(emitted[r]) :
          i < j => Before(Position(groups[r], emitted[r][i]),
                          Position(groups[r], emitted[r][j]))
    /\ (/\ Done(1) /\ Done(2) /\ Clean(1) /\ Clean(2)
        /\ dry_run[1] = dry_run[2] /\ start[1] = start[2]) =>
          emitted[1] = emitted[2]

\* Two runs in the same mode from the same state have ended, each having
\* emitted an account action and the actions of two members.
C14_Witness ==
    /\ Done(1) /\ Done(2) /\ Clean(1) /\ Clean(2)
    /\ dry_run[1] = dry_run[2] /\ start[1] = start[2]
    /\ Len(emitted[2]) >= 3
    /\ emitted[2][1].kind = "add_account"
    /\ emitted[2][2].kind # "add_account"
    /\ emitted[2][3].kind # "add_account"
    /\ emitted[2][2].user # emitted[2][3].user

\* Run r has issued the command `kind` for the account or user `name` with
\* one of the results in `results`.
HasIssued(r, kind, name, results) ==
    \E i \in 1..Len(emitted[r]) :
        /\ emitted[r][i].kind = kind
        /\ emitted[r][i].result \in results
        /\ name = IF kind = "add_account" THEN emitted[r][i].account
                  ELSE emitted[r][i].user

\* The other one of two instances.
Peer(r) == 3 - r

\* C15. Concurrent runs race: nothing orders the check of one instance and
\* the create of the other, so both can find the same account (or user)
\* missing and both issue its create; and this race is how a duplicate
\* create comes about: an instance about to create an account
\* that exists, or a user that exists (and that the listing shows in full),
\* found it missing before the other instance created it.
C15_ConcurrentRace ==
    \A r \in Runs :
        /\ (pc[r] = "add_account" /\ group_name(r) \in accounts) =>
              HasIssued(Peer(r), "add_account", group_name(r), {"ok"})
        /\ (/\ pc[r] = "add_user" /\ username[r] \in users
            /\ Len(username[r]) <= UserColumn) =>
              HasIssued(Peer(r), "add_user", username[r], {"ok"})

\* Both instances found the same account missing and both issued its
\* create, and likewise for the same user.
C15_Witness ==
    /\ \A r \in Runs : pc[r] # "start"
    /\ \E g \in GroupNames \ (start[1].accounts \cup start[2].accounts) :
          \A r \in Runs : HasIssued(r, "add_account", g, {"ok", "failed"})
    /\ \E u \in LoginsOf(adGroups) \ (start[1].users \cup start[2].users) :
          /\ Len(u) <= UserColumn
          /\ \A r \in Runs : HasIssued(r, "add_user", u, {"ok", "failed"})

\* C16. No duplicate create in a single run: with every query answered, the
\* run issues add account only when no account of the group's name exists
\* and add user only when no user of the member's login exists.
C16_NoDuplicateCreate ==
    (~blind[1] /\ ~dry_run[1]) =>
        /\ pc[1] = "add_account" => group_name(1) \notin accounts
        /\ pc[1] = "add_user" => username[1] \notin users

\* The iterations at which a command of run r failed.
FailedAt(r) ==
    {Position(groups[r], emitted[r][i]) :
        i \in {j \in 1..Len(emitted[r]) : emitted[r][j].result = "failed"}}

\* C17. Scope of a command failure: when a command fails in group G (the
\* account creation or a member's add or modify), the run begins no further
\* iteration of G and goes on to the account check of the next group; a run
\* that returns from main has gone through the account check of every
\* group and through every member of every group up to the group's failed
\* command, if it has one.
C17_FailureScope ==
    (fails > 0) =>
        LET failed == FailedAt(1)
        IN  /\ \A p \in failed :
                  /\ gi[1] > p[1]
                  /\ \A q \in visited[1] : q[1] = p[1] => q[2] <= p[2]
                  /\ p[1] < Len(groups[1]) =>
                        \/ <<p[1] + 1, 0>> \in visited[1]
                        \/ pc[1] = "group" /\ gi[1] = p[1] + 1
            /\ (Done(1) /\ exitCode[1] = 0) =>
                  visited[1] =
                     {q \in Iterations(groups[1]) :
                         \A p \in failed : q[1] = p[1] => q[2] <= p[2]}

\* A run has returned from main after a command of the first group failed
\* with a member of that group left, and a member of the second group was
\* processed.
C17_Witness ==
    /\ Done(1) /\ exitCode[1] = 0
    /\ \E p \in FailedAt(1) :
          /\ p[1] = 1
          /\ Len(groups[1][1].member) > p[2]
          /\ <<2, 1>> \in visited[1]

\* C18. UserExists is exact: whenever the run asks whether its current
\* member's login is a scheduler user, slurm_user_exists, applied to the
\* text the list-user command prints (the header and a line per matching
\* user), answers true exactly when the scheduler has a user of that login.
C18_UserExistsExact ==
    pc[1] = "user_exists" =>
        (slurm_user_exists(username[1], ListUserOutput(username[1], users))
            <=> username[1] \in users)

====
